---- MODULE Spec2Model ----
(***************************************************************************)
(* Progressive generation-and-playback pipeline of the journey story app.  *)
(*                                                                         *)
(* App (App.tsx) owns the journey state, the generation lock and the       *)
(* look-ahead scheduler; StoryPlayer (components/StoryPlayer.tsx) owns the *)
(* playback cursor and the audio source.  React state setters are applied  *)
(* when they are called; a passive effect (useEffect) is an action of its  *)
(* own that is enabled once one of its dependencies has changed.           *)
(***************************************************************************)
EXTENDS Integers, Sequences, FiniteSets, TLC

\* ------------------------------------------------------------------ bounds
MaxJourneys == 2            \* journeys started in one behaviour
ChapterDuration == 2        \* audio length of a chapter, in ticks of the audio clock
Durations == {60, 150, 400} \* route durations (seconds) the directions lookup returns
MaxOutlineItems == 5        \* longest array the provider returns for the outline
MaxLandmarkNames == 5       \* longest array the provider returns for the landmark names
MaxSeconds == 300           \* longest route duration the estimate is computed for on its own
MaxLateCalls == 1           \* provider calls followed after their timer has fired

\* --------------------------------------------------------------- constants
SEGMENT_CAP == 4
SEGMENT_MIN == 2
SECONDS_PER_SEGMENT == 60
LOOKAHEAD == 2
LANDMARK_CAP == 4

\* generationError: null, and the two messages handleGenerateStory sets
NoError == "none"
GENERIC_MESSAGE == "Failed to start story stream."
UPGRADE_MESSAGE == "High-quality visuals require a paid API key."

\* the beat generateStoryOutline fills its fallback outline with
FALLBACK_BEAT == "the beginning of a sacred journey"
\* the names getFamousLandmarks falls back to
\* (n = 1, 2, 3 for "Holy Temple", "Historical Gate", "Sacred River")
GENERIC_LANDMARKS == [n \in 1..3 |-> [generic |-> TRUE, n |-> n]]

NoRoute == [id |-> 0, durationSeconds |-> 0]
NoStory == [totalSegmentsEstimate |-> 0, outline |-> <<>>, segments |-> <<>>,
            landmarkImages |-> <<>>]
NoSource == [index |-> 0, route |-> 0, story |-> NoStory]
NoFailure == [index |-> 0, route |-> 0, error |-> "none"]
NoProgress == [num |-> 0, den |-> 1]
NoLoop == [isPlaying |-> FALSE, isBuffering |-> FALSE, currentSegmentIndex |-> 0,
           audioBuffer |-> FALSE, totalSegmentsEstimate |-> 0]

VARIABLES
    appState,            \* AppState of App
    route,               \* RouteDetails | null
    story,               \* AudioStory | null
    isGeneratingRef,     \* the generation lock
    currentPlayingIndex, \* App's copy of the playback cursor
    journeys,            \* number of routes handed to handleGenerateStory so far
    startup,             \* position of handleGenerateStory: idle, outline, text, audio, close, landmarks
    landmarksPromise,    \* none, pending, resolved
    attempts,            \* running invocations of generateNextSegment
    lastFailed,          \* what the catch block logged for the attempt that ended last
    schedulerDirty,      \* a dependency of the scheduler effect changed since it last ran
    smoothProgress,      \* the journey progress last pushed, as the fraction num / den
    generationError,     \* the message RoutePlanner shows: none, generic, upgrade
    isKeyRequired,       \* the key-required gate
    outline,             \* the outline handleGenerateStory awaited, before the Story exists
    landmarkImages,      \* the value landmarksPromise resolved with
    lateCalls,           \* provider calls of attempts whose timer fired first and that still run
    isPlaying,           \* StoryPlayer state
    isBuffering,
    currentSegmentIndex,
    indexRef,
    audioContextRef,     \* TRUE once the player created its AudioContext
    sourceRef,           \* the active AudioBufferSourceNode with the story its onended handler closed over
    elapsed,             \* audioContext.currentTime - startTimeRef.current
    segmentOffsetRef,
    playerDirty,         \* a dependency of a StoryPlayer effect changed since they last ran
    rafClosure,          \* what the registered updateProgress loop closed over
    activeSources        \* AudioBufferSourceNodes that were started and are still sounding

startVars == <<generationError, isKeyRequired, outline, landmarkImages, lateCalls>>
appVars == <<appState, route, story, isGeneratingRef, currentPlayingIndex, journeys,
             startup, landmarksPromise, attempts, lastFailed, schedulerDirty, smoothProgress,
             generationError, isKeyRequired, outline, landmarkImages, lateCalls>>
playerVars == <<isPlaying, isBuffering, currentSegmentIndex, indexRef, audioContextRef,
                sourceRef, elapsed, segmentOffsetRef, playerDirty, rafClosure, activeSources>>
vars == <<appState, route, story, isGeneratingRef, currentPlayingIndex, journeys,
          startup, landmarksPromise, attempts, lastFailed, schedulerDirty, smoothProgress,
          generationError, isKeyRequired, outline, landmarkImages, lateCalls,
          isPlaying, isBuffering, currentSegmentIndex, indexRef, audioContextRef,
          sourceRef, elapsed, segmentOffsetRef, playerDirty, rafClosure, activeSources>>

\* ----------------------------------------------------------------- helpers
Max(a, b) == IF a >= b THEN a ELSE b
Min(a, b) == IF a <= b THEN a ELSE b
CeilDiv(a, b) == (a + b - 1) \div b

\* enum AppState: the numeric order the code compares with < and >=
AppStateOrd(s) ==
    CASE s = "PLANNING" -> 0
      [] s = "CALCULATING_ROUTE" -> 1
      [] s = "ROUTE_CONFIRMED" -> 2
      [] s = "GENERATING_INITIAL_SEGMENT" -> 3
      [] s = "READY_TO_PLAY" -> 4
      [] s = "PLAYING" -> 5

\* mutant: the minutes are rounded down
calculateTotalSegments_floor(durationSeconds) ==
    Min(Max(SEGMENT_MIN, durationSeconds \div SECONDS_PER_SEGMENT), SEGMENT_CAP)

calculateTotalSegments(durationSeconds) ==
    Min(Max(SEGMENT_MIN, CeilDiv(durationSeconds, SECONDS_PER_SEGMENT)), SEGMENT_CAP)

\* what the provider sends back for a JSON array request: ok is FALSE when the
\* call throws or the text does not parse to an array, items is the parsed array
OutlineReplies ==
    {[ok |-> FALSE, items |-> <<>>]} \cup
    {[ok |-> TRUE, items |-> [i \in 1..n |-> "beat"]] : n \in 0..MaxOutlineItems}

\* the reply the provider gives when it follows the prompt: one beat per chapter
UsualOutlineReply(totalSegments) == [ok |-> TRUE, items |-> [i \in 1..totalSegments |-> "beat"]]

\* JSON.parse(text || "[]").slice(0, totalSegments), or the filled fallback in catch
generateStoryOutline(reply, totalSegments) ==
    IF reply.ok
    THEN SubSeq(reply.items, 1, Min(Len(reply.items), totalSegments))
    ELSE [i \in 1..totalSegments |-> FALLBACK_BEAT]

\* the n-th name the provider returns, and the value an image that failed has
ProviderLandmark(n) == [generic |-> FALSE, n |-> n]
NoImage == [generic |-> FALSE, n |-> 0]

LandmarkReplies ==
    {[ok |-> FALSE, items |-> <<>>]} \cup
    {[ok |-> TRUE, items |-> [i \in 1..n |-> ProviderLandmark(i)]] : n \in 0..MaxLandmarkNames}

\* the reply and the image failures of a provider that works
UsualLandmarkReply == [ok |-> TRUE, items |-> [i \in 1..2 |-> ProviderLandmark(i)]]

\* landmarks.slice(0, 4), or the generic names in catch
getFamousLandmarks(reply) ==
    IF reply.ok
    THEN SubSeq(reply.items, 1, Min(Len(reply.items), LANDMARK_CAP))
    ELSE GENERIC_LANDMARKS

\* the data URL of the image drawn for a name, or null: never a throw
generateLandmarkImage(name, fails) == IF fails THEN NoImage ELSE name

\* mutant: the images that failed stay in the list
LandmarkImages_keepsNull(reply, failed) ==
    LET names == getFamousLandmarks(reply)
    IN  [i \in 1..Len(names) |-> generateLandmarkImage(names[i], i \in failed)]

\* getFamousLandmarks(...).then(names => Promise.all(names.map(generateLandmarkImage)))
\* with results.filter(img => img !== null); failed holds the positions whose image failed
LandmarkImages(reply, failed) ==
    LET names == getFamousLandmarks(reply)
        results == [i \in 1..Len(names) |-> generateLandmarkImage(names[i], i \in failed)]
    IN  SelectSeq(results, LAMBDA img : img # NoImage)

Indices(st) == {st.segments[k].index : k \in DOMAIN st.segments}

\* a chapter: generateSegment's result for (route, index) with the decoded audio attached
Segment(r, i) == [index |-> i, route |-> r, audioBuffer |-> TRUE]

\* Array.prototype.sort((a, b) => a.index - b.index): stable, ascending by index
RECURSIVE InsertSorted(_, _)
InsertSorted(sorted, seg) ==
    IF sorted = <<>> THEN <<seg>>
    ELSE IF sorted[Len(sorted)].index <= seg.index THEN Append(sorted, seg)
    ELSE Append(InsertSorted(SubSeq(sorted, 1, Len(sorted) - 1), seg), sorted[Len(sorted)])

RECURSIVE SortByIndex(_)
SortByIndex(segs) ==
    IF segs = <<>> THEN <<>>
    ELSE InsertSorted(SortByIndex(SubSeq(segs, 1, Len(segs) - 1)), segs[Len(segs)])

\* mutant: the updater keeps the first chapter and the new one only
InsertSegment_dropsOthers(prev, seg) ==
    IF prev = NoStory \/ (\E k \in DOMAIN prev.segments : prev.segments[k].index = seg.index)
    THEN prev
    ELSE [prev EXCEPT !.segments = SortByIndex(<<prev.segments[1], seg>>)]

\* mutant: the updater replaces a chapter whose index is already present
InsertSegment_replaces(prev, seg) ==
    IF prev = NoStory THEN prev
    ELSE IF \E k \in DOMAIN prev.segments : prev.segments[k].index = seg.index
    THEN [prev EXCEPT !.segments =
            [k \in DOMAIN prev.segments |->
                IF prev.segments[k].index = seg.index THEN seg ELSE prev.segments[k]]]
    ELSE [prev EXCEPT !.segments = SortByIndex(Append(prev.segments, seg))]

\* mutant: the updater without the duplicate-index check
InsertSegment_noDupCheck(prev, seg) ==
    IF prev = NoStory THEN prev
    ELSE [prev EXCEPT !.segments = SortByIndex(Append(prev.segments, seg))]

\* the updater handed to setStory by generateNextSegment
InsertSegment(prev, seg) ==
    IF prev = NoStory \/ (\E k \in DOMAIN prev.segments : prev.segments[k].index = seg.index)
    THEN prev
    ELSE [prev EXCEPT !.segments = SortByIndex(Append(prev.segments, seg))]

\* story.segments[k] of the code (0-based); index 0 stands for undefined
SegmentAt(st, k) ==
    IF k + 1 \in DOMAIN st.segments THEN st.segments[k + 1]
    ELSE [index |-> 0, route |-> 0, audioBuffer |-> FALSE]

\* mutant: the awaited call is not raced against a timer
withTimeout_noTimer(settlements) == settlements

\* Promise.race([promise, timer]): how an awaited provider call can end
ProviderSettlements == {"resolved", "rejected"}
withTimeout(settlements) == settlements \cup {"timeout"}

\* ------------------------------------------------------------------- Init
Init ==
    /\ appState = "PLANNING"
    /\ route = NoRoute
    /\ story = NoStory
    /\ isGeneratingRef = FALSE
    /\ currentPlayingIndex = 0
    /\ journeys = 0
    /\ startup = "idle"
    /\ landmarksPromise = "none"
    /\ attempts = <<>>
    /\ lastFailed = NoFailure
    /\ schedulerDirty = FALSE
    /\ smoothProgress = NoProgress
    /\ generationError = NoError
    /\ isKeyRequired \in BOOLEAN
    /\ outline = <<>>
    /\ landmarkImages = <<>>
    /\ isPlaying = FALSE
    /\ isBuffering = FALSE
    /\ currentSegmentIndex = 0
    /\ indexRef = 0
    /\ audioContextRef = FALSE
    /\ sourceRef = NoSource
    /\ elapsed = 0
    /\ segmentOffsetRef = 0
    /\ playerDirty = FALSE
    /\ rafClosure = NoLoop
    /\ activeSources = 0
    /\ lateCalls = {}

\* ------------------------------------------------------------ App: journey
Mounted == AppStateOrd(appState) >= AppStateOrd("READY_TO_PLAY") /\ story # NoStory /\ route # NoRoute

\* the state a freshly mounted StoryPlayer starts in; stopAudio and the
\* AudioContext close of the unmount cleanup leave the same values behind
PlayerReset ==
    /\ isPlaying' = FALSE
    /\ isBuffering' = FALSE
    /\ currentSegmentIndex' = 0
    /\ indexRef' = 0
    /\ audioContextRef' = FALSE
    /\ sourceRef' = NoSource
    /\ elapsed' = 0
    /\ segmentOffsetRef' = 0
    /\ rafClosure' = NoLoop
    /\ activeSources' = 0

\* RoutePlanner hands a route over: it is unlocked only while planning
handleGenerateStory(durationSeconds) ==
    /\ appState = "PLANNING"
    /\ ~isKeyRequired
    /\ startup = "idle"
    /\ journeys < MaxJourneys
    /\ journeys' = journeys + 1
    /\ route' = [id |-> journeys + 1, durationSeconds |-> durationSeconds]
    /\ generationError' = NoError
    /\ appState' = "GENERATING_INITIAL_SEGMENT"
    /\ landmarksPromise' = "pending"
    /\ startup' = "outline"
    /\ schedulerDirty' = TRUE
    /\ UNCHANGED <<story, isGeneratingRef, currentPlayingIndex, attempts, lastFailed, smoothProgress>>
    /\ UNCHANGED <<isKeyRequired, outline, landmarkImages>>
    /\ UNCHANGED playerVars
    /\ UNCHANGED lateCalls

\* "Select Paid API Key" on the key screen: openSelectKey(), setIsKeyRequired(false)
handleOpenKeySelector ==
    /\ isKeyRequired
    /\ isKeyRequired' = FALSE
    /\ UNCHANGED <<appState, route, story, isGeneratingRef, currentPlayingIndex, journeys,
                   startup, landmarksPromise, attempts, lastFailed, schedulerDirty, smoothProgress,
                   generationError, outline, landmarkImages>>
    /\ UNCHANGED playerVars
    /\ UNCHANGED lateCalls

\* the awaited generateStoryOutline resolves: it catches every provider error
OutlineSettles(reply) ==
    /\ startup = "outline"
    /\ outline' = generateStoryOutline(reply, calculateTotalSegments(route.durationSeconds))
    /\ startup' = "text"
    /\ UNCHANGED <<appState, route, story, isGeneratingRef, currentPlayingIndex, journeys,
                   landmarksPromise, attempts, lastFailed, schedulerDirty, smoothProgress,
                   generationError, isKeyRequired, landmarkImages>>
    /\ UNCHANGED playerVars
    /\ UNCHANGED lateCalls

\* how an awaited call of handleGenerateStory can end, the resolved outline apart:
\* notFound is a rejection whose message holds "Requested entity was not found"
StartupSettlements(step) ==
    IF step = "outline" THEN withTimeout({}) ELSE withTimeout(ProviderSettlements \cup {"notFound"})

\* mutant: the catch block shows the generic message for every error
StartupMessage_alwaysGeneric(outcome) == GENERIC_MESSAGE

\* the message the catch block of handleGenerateStory chooses
StartupMessage(outcome) == IF outcome = "notFound" THEN UPGRADE_MESSAGE ELSE GENERIC_MESSAGE

\* the awaited outline, first text or first audio call of handleGenerateStory ends
StartupSettles(outcome) ==
    /\ startup \in {"outline", "text", "audio"}
    /\ outcome \in StartupSettlements(startup)
    /\ IF outcome = "resolved"
       THEN /\ startup' = (CASE startup = "text" -> "audio"
                             [] startup = "audio" -> "close")
            /\ UNCHANGED <<appState, landmarksPromise, schedulerDirty>>
            /\ UNCHANGED startVars
       ELSE /\ startup' = "idle"
            /\ appState' = "PLANNING"
            /\ landmarksPromise' = "none"
            /\ schedulerDirty' = TRUE
            /\ isKeyRequired' = (isKeyRequired \/ outcome = "notFound")
            /\ generationError' = StartupMessage(outcome)
            /\ outline' = <<>>
            /\ landmarkImages' = <<>>
            /\ UNCHANGED lateCalls
    /\ UNCHANGED <<route, story, isGeneratingRef, currentPlayingIndex, journeys, attempts, lastFailed,
                   smoothProgress>>
    /\ UNCHANGED playerVars

\* await tempCtx.close() of handleGenerateStory
StartupClose ==
    /\ startup = "close"
    /\ startup' = "landmarks"
    /\ UNCHANGED <<appState, route, story, isGeneratingRef, currentPlayingIndex, journeys,
                   landmarksPromise, attempts, lastFailed, schedulerDirty, smoothProgress>>
    /\ UNCHANGED startVars
    /\ UNCHANGED playerVars

\* getFamousLandmarks(...).then(Promise.all(images)) resolves; it never rejects
LandmarksResolve(reply, failed) ==
    /\ landmarksPromise = "pending"
    /\ landmarksPromise' = "resolved"
    /\ landmarkImages' = LandmarkImages(reply, failed)
    /\ UNCHANGED <<appState, route, story, isGeneratingRef, currentPlayingIndex, journeys,
                   startup, attempts, lastFailed, schedulerDirty, smoothProgress>>
    /\ UNCHANGED <<generationError, isKeyRequired, outline>>
    /\ UNCHANGED playerVars
    /\ UNCHANGED lateCalls

\* mutant: the Story is created as soon as the first chapter's text exists
StartupFinish_beforeAudio ==
    /\ startup \in {"audio", "landmarks"}
    /\ landmarksPromise = "resolved"
    /\ story' = [totalSegmentsEstimate |-> calculateTotalSegments(route.durationSeconds),
                 outline |-> outline,
                 segments |-> <<[index |-> 1, route |-> route.id,
                                 audioBuffer |-> startup = "landmarks"]>>,
                 landmarkImages |-> landmarkImages]
    /\ appState' = "READY_TO_PLAY"
    /\ startup' = "idle"
    /\ landmarksPromise' = "none"
    /\ outline' = <<>>
    /\ landmarkImages' = <<>>
    /\ schedulerDirty' = TRUE
    /\ PlayerReset
    /\ playerDirty' = TRUE
    /\ UNCHANGED <<route, isGeneratingRef, currentPlayingIndex, journeys, attempts, lastFailed,
                   smoothProgress, generationError, isKeyRequired>>
    /\ UNCHANGED lateCalls

\* await landmarksPromise; setStory(...); setAppState(READY_TO_PLAY): StoryPlayer mounts
StartupFinish ==
    /\ startup = "landmarks"
    /\ landmarksPromise = "resolved"
    /\ story' = [totalSegmentsEstimate |-> calculateTotalSegments(route.durationSeconds),
                 outline |-> outline,
                 segments |-> <<Segment(route.id, 1)>>,
                 landmarkImages |-> landmarkImages]
    /\ appState' = "READY_TO_PLAY"
    /\ startup' = "idle"
    /\ landmarksPromise' = "none"
    /\ outline' = <<>>
    /\ landmarkImages' = <<>>
    /\ schedulerDirty' = TRUE
    /\ PlayerReset
    /\ playerDirty' = TRUE
    /\ UNCHANGED <<route, isGeneratingRef, currentPlayingIndex, journeys, attempts, lastFailed,
                   smoothProgress, generationError, isKeyRequired>>
    /\ UNCHANGED lateCalls

\* mutant: the reset forgets the progress value
handleReset_keepsProgress ==
    /\ Mounted
    /\ appState' = "PLANNING"
    /\ route' = NoRoute
    /\ story' = NoStory
    /\ currentPlayingIndex' = 0
    /\ schedulerDirty' = TRUE
    /\ PlayerReset
    /\ playerDirty' = FALSE
    /\ generationError' = NoError
    /\ UNCHANGED <<isGeneratingRef, journeys, startup, landmarksPromise, attempts, lastFailed,
                   smoothProgress, isKeyRequired, outline, landmarkImages>>
    /\ UNCHANGED lateCalls

\* "End Journey & Start New": rendered only next to a mounted StoryPlayer
handleReset ==
    /\ Mounted
    /\ appState' = "PLANNING"
    /\ route' = NoRoute
    /\ story' = NoStory
    /\ currentPlayingIndex' = 0
    /\ smoothProgress' = NoProgress
    /\ schedulerDirty' = TRUE
    /\ PlayerReset
    /\ playerDirty' = FALSE
    /\ generationError' = NoError
    /\ UNCHANGED <<isGeneratingRef, journeys, startup, landmarksPromise, attempts, lastFailed,
                   isKeyRequired, outline, landmarkImages>>
    /\ UNCHANGED lateCalls

\* mutant: the condition without the look-ahead window
ShouldGenerate_noWindow ==
    /\ Len(story.segments) < story.totalSegmentsEstimate
    /\ ~isGeneratingRef

\* -------------------------------------------------- App: generation scheduler
\* mutant: the look-ahead condition without the estimate cap
ShouldGenerate_noCap ==
    /\ Len(story.segments) < currentPlayingIndex + LOOKAHEAD
    /\ ~isGeneratingRef

\* mutant: the estimate compared with <= instead of <
ShouldGenerate_offByOne ==
    /\ Len(story.segments) < currentPlayingIndex + LOOKAHEAD
    /\ Len(story.segments) <= story.totalSegmentsEstimate
    /\ ~isGeneratingRef

\* the condition of the scheduler effect, on the rendered story and cursor
ShouldGenerate ==
    /\ Len(story.segments) < currentPlayingIndex + LOOKAHEAD
    /\ Len(story.segments) < story.totalSegmentsEstimate
    /\ ~isGeneratingRef

\* mutant: the attempt starts without taking the lock
generateNextSegment_forgetsLock(index) ==
    IF route = NoRoute \/ story = NoStory \/ isGeneratingRef
    THEN UNCHANGED <<isGeneratingRef, attempts>>
    ELSE /\ UNCHANGED isGeneratingRef
         /\ attempts' = Append(attempts, [index |-> index, route |-> route.id,
                                          story |-> story, step |-> "text"])

\* generateNextSegment up to its first await: guard, lock, closure over route and story
generateNextSegment(index) ==
    IF route = NoRoute \/ story = NoStory \/ isGeneratingRef
    THEN UNCHANGED <<isGeneratingRef, attempts>>
    ELSE /\ isGeneratingRef' = TRUE
         /\ attempts' = Append(attempts, [index |-> index, route |-> route.id,
                                          story |-> story, step |-> "text"])

\* mutant: the effect requests the look-ahead index instead of the next missing one
SchedulerEffect_requestsNeeded ==
    /\ schedulerDirty
    /\ schedulerDirty' = FALSE
    /\ IF Mounted /\ ShouldGenerate
       THEN generateNextSegment(Min(currentPlayingIndex + LOOKAHEAD, story.totalSegmentsEstimate))
       ELSE UNCHANGED <<isGeneratingRef, attempts>>
    /\ UNCHANGED <<appState, route, story, currentPlayingIndex, journeys, startup,
                   landmarksPromise, lastFailed, smoothProgress>>
    /\ UNCHANGED playerVars
    /\ UNCHANGED startVars

\* useEffect(..., [story, route, appState, currentPlayingIndex])
SchedulerEffect ==
    /\ schedulerDirty
    /\ schedulerDirty' = FALSE
    /\ IF Mounted /\ ShouldGenerate
       THEN generateNextSegment(Len(story.segments) + 1)
       ELSE UNCHANGED <<isGeneratingRef, attempts>>
    /\ UNCHANGED <<appState, route, story, currentPlayingIndex, journeys, startup,
                   landmarksPromise, lastFailed, smoothProgress>>
    /\ UNCHANGED playerVars
    /\ UNCHANGED startVars

RemoveAt(seq, k) == SubSeq(seq, 1, k - 1) \o SubSeq(seq, k + 1, Len(seq))

TimeoutMessage(step) ==
    IF step = "text" THEN "Text generation timeout" ELSE "Audio generation timeout"

\* mutant: the chapter is put into the Story as soon as its text exists
AttemptSettles_insertsTextOnly(k, outcome) ==
    /\ k \in DOMAIN attempts
    /\ attempts[k].step \in {"text", "audio"}
    /\ outcome \in withTimeout(ProviderSettlements)
    /\ IF outcome = "resolved"
       THEN /\ attempts' = [attempts EXCEPT ![k].step = IF @ = "text" THEN "audio" ELSE "close"]
            /\ story' = IF attempts[k].step = "text"
                        THEN InsertSegment(story, [index |-> attempts[k].index,
                                                   route |-> attempts[k].route,
                                                   audioBuffer |-> FALSE])
                        ELSE story
            /\ UNCHANGED <<isGeneratingRef, lastFailed>>
       ELSE /\ lastFailed' = [index |-> attempts[k].index, route |-> attempts[k].route,
                              error |-> IF outcome = "timeout"
                                        THEN TimeoutMessage(attempts[k].step)
                                        ELSE "provider error"]
            /\ isGeneratingRef' = FALSE
            /\ attempts' = RemoveAt(attempts, k)
            /\ UNCHANGED story
    /\ UNCHANGED <<appState, route, currentPlayingIndex, journeys, startup,
                   landmarksPromise, schedulerDirty, smoothProgress>>
    /\ UNCHANGED playerVars
    /\ UNCHANGED startVars

\* mutant: the catch block makes the scheduler effect run again
AttemptSettles_wakesScheduler(k, outcome) ==
    /\ k \in DOMAIN attempts
    /\ attempts[k].step \in {"text", "audio"}
    /\ outcome \in withTimeout(ProviderSettlements)
    /\ IF outcome = "resolved"
       THEN /\ attempts' = [attempts EXCEPT ![k].step = IF @ = "text" THEN "audio" ELSE "close"]
            /\ UNCHANGED <<isGeneratingRef, lastFailed, schedulerDirty>>
       ELSE /\ lastFailed' = [index |-> attempts[k].index, route |-> attempts[k].route,
                              error |-> IF outcome = "timeout"
                                        THEN TimeoutMessage(attempts[k].step)
                                        ELSE "provider error"]
            /\ isGeneratingRef' = FALSE
            /\ attempts' = RemoveAt(attempts, k)
            /\ schedulerDirty' = TRUE
    /\ UNCHANGED <<appState, route, story, currentPlayingIndex, journeys, startup,
                   landmarksPromise, smoothProgress>>
    /\ UNCHANGED startVars
    /\ UNCHANGED playerVars

\* mutant: the audio is requested although the text request failed
AttemptSettles_audioAfterFailure(k, outcome) ==
    /\ k \in DOMAIN attempts
    /\ attempts[k].step \in {"text", "audio"}
    /\ outcome \in withTimeout(ProviderSettlements)
    /\ IF outcome = "resolved"
       THEN /\ attempts' = [attempts EXCEPT ![k].step = IF @ = "text" THEN "audio" ELSE "close"]
            /\ UNCHANGED <<isGeneratingRef, lastFailed>>
       ELSE /\ lastFailed' = [index |-> attempts[k].index, route |-> attempts[k].route,
                              error |-> IF outcome = "timeout"
                                        THEN TimeoutMessage(attempts[k].step)
                                        ELSE "provider error"]
            /\ IF attempts[k].step = "text"
               THEN /\ attempts' = [attempts EXCEPT ![k].step = "audio"]
                    /\ UNCHANGED isGeneratingRef
               ELSE /\ attempts' = RemoveAt(attempts, k)
                    /\ isGeneratingRef' = FALSE
    /\ UNCHANGED <<appState, route, story, currentPlayingIndex, journeys, startup,
                   landmarksPromise, schedulerDirty, smoothProgress>>
    /\ UNCHANGED startVars
    /\ UNCHANGED playerVars

\* mutant: a failed attempt stops the player
AttemptSettles_stopsPlayback(k, outcome) ==
    /\ k \in DOMAIN attempts
    /\ attempts[k].step \in {"text", "audio"}
    /\ outcome \in withTimeout(ProviderSettlements)
    /\ IF outcome = "resolved"
       THEN /\ attempts' = [attempts EXCEPT ![k].step = IF @ = "text" THEN "audio" ELSE "close"]
            /\ UNCHANGED <<isGeneratingRef, lastFailed>>
            /\ UNCHANGED <<isPlaying, sourceRef, activeSources>>
       ELSE /\ lastFailed' = [index |-> attempts[k].index, route |-> attempts[k].route,
                              error |-> IF outcome = "timeout"
                                        THEN TimeoutMessage(attempts[k].step)
                                        ELSE "provider error"]
            /\ isGeneratingRef' = FALSE
            /\ attempts' = RemoveAt(attempts, k)
            /\ isPlaying' = FALSE
            /\ sourceRef' = NoSource
            /\ activeSources' = (IF sourceRef # NoSource THEN activeSources - 1 ELSE activeSources)
    /\ UNCHANGED <<appState, route, story, currentPlayingIndex, journeys, startup,
                   landmarksPromise, schedulerDirty, smoothProgress>>
    /\ UNCHANGED startVars
    /\ UNCHANGED <<isBuffering, currentSegmentIndex, indexRef, audioContextRef, elapsed,
                   segmentOffsetRef, playerDirty, rafClosure>>

\* the awaited text or audio call of attempt k ends: next await, or catch and finally
AttemptSettles(k, outcome) ==
    /\ k \in DOMAIN attempts
    /\ attempts[k].step \in {"text", "audio"}
    /\ outcome \in withTimeout(ProviderSettlements)
    /\ IF outcome = "resolved"
       THEN /\ attempts' = [attempts EXCEPT ![k].step = IF @ = "text" THEN "audio" ELSE "close"]
            /\ UNCHANGED <<isGeneratingRef, lastFailed>>
       ELSE /\ lastFailed' = [index |-> attempts[k].index, route |-> attempts[k].route,
                              error |-> IF outcome = "timeout"
                                        THEN TimeoutMessage(attempts[k].step)
                                        ELSE "provider error"]
            /\ isGeneratingRef' = FALSE
            /\ attempts' = RemoveAt(attempts, k)
    /\ UNCHANGED <<appState, route, story, currentPlayingIndex, journeys, startup,
                   landmarksPromise, schedulerDirty, smoothProgress>>
    /\ UNCHANGED playerVars
    /\ UNCHANGED startVars

\* mutant: the chapter is put into the Story while its audio is still awaited
AttemptCompletes_beforeAudio(k) ==
    /\ k \in DOMAIN attempts
    /\ attempts[k].step \in {"audio", "close"}
    /\ story' = InsertSegment(story, [index |-> attempts[k].index, route |-> attempts[k].route,
                                      audioBuffer |-> attempts[k].step = "close"])
    /\ schedulerDirty' = (schedulerDirty \/ story' # story)
    /\ playerDirty' = (playerDirty \/ story' # story)
    /\ isGeneratingRef' = FALSE
    /\ attempts' = RemoveAt(attempts, k)
    /\ lastFailed' = NoFailure
    /\ UNCHANGED <<appState, route, currentPlayingIndex, journeys, startup,
                   landmarksPromise, smoothProgress>>
    /\ UNCHANGED startVars
    /\ UNCHANGED <<isPlaying, isBuffering, currentSegmentIndex, indexRef, audioContextRef,
                   sourceRef, elapsed, segmentOffsetRef, rafClosure, activeSources>>

\* mutant: the insert of a chapter moves the cursor to it
AttemptCompletes_movesCursor(k) ==
    /\ k \in DOMAIN attempts
    /\ attempts[k].step = "close"
    /\ story' = InsertSegment(story, Segment(attempts[k].route, attempts[k].index))
    /\ schedulerDirty' = (schedulerDirty \/ story' # story)
    /\ playerDirty' = (playerDirty \/ story' # story)
    /\ isGeneratingRef' = FALSE
    /\ attempts' = RemoveAt(attempts, k)
    /\ lastFailed' = NoFailure
    /\ currentSegmentIndex' = IF Mounted THEN Len(story'.segments) - 1 ELSE currentSegmentIndex
    /\ UNCHANGED <<appState, route, currentPlayingIndex, journeys, startup,
                   landmarksPromise, smoothProgress>>
    /\ UNCHANGED startVars
    /\ UNCHANGED <<isPlaying, isBuffering, indexRef, audioContextRef,
                   sourceRef, elapsed, segmentOffsetRef, rafClosure, activeSources>>

\* await tempCtx.close() returns: setStory(updater), then finally
AttemptCompletes(k) ==
    /\ k \in DOMAIN attempts
    /\ attempts[k].step = "close"
    /\ story' = InsertSegment(story, Segment(attempts[k].route, attempts[k].index))
    /\ schedulerDirty' = (schedulerDirty \/ story' # story)
    /\ playerDirty' = (playerDirty \/ story' # story)
    /\ isGeneratingRef' = FALSE
    /\ attempts' = RemoveAt(attempts, k)
    /\ lastFailed' = NoFailure
    /\ UNCHANGED <<appState, route, currentPlayingIndex, journeys, startup,
                   landmarksPromise, smoothProgress>>
    /\ UNCHANGED <<isPlaying, isBuffering, currentSegmentIndex, indexRef, audioContextRef,
                   sourceRef, elapsed, segmentOffsetRef, rafClosure, activeSources>>
    /\ UNCHANGED startVars


\* the timer of attempt k's awaited call fires while the provider call is still
\* running: catch and finally as on every failure; the provider promise stays
\* pending with the .then of withTimeout attached
AttemptTimesOut(k) ==
    /\ k \in DOMAIN attempts
    /\ attempts[k].step \in {"text", "audio"}
    /\ "timeout" \in withTimeout(ProviderSettlements)
    /\ Cardinality(lateCalls) < MaxLateCalls
    /\ lateCalls' = lateCalls \cup {[index |-> attempts[k].index, route |-> attempts[k].route,
                                     step |-> attempts[k].step]}
    /\ lastFailed' = [index |-> attempts[k].index, route |-> attempts[k].route,
                      error |-> TimeoutMessage(attempts[k].step)]
    /\ isGeneratingRef' = FALSE
    /\ attempts' = RemoveAt(attempts, k)
    /\ UNCHANGED <<appState, route, story, currentPlayingIndex, journeys, startup,
                   landmarksPromise, schedulerDirty, smoothProgress>>
    /\ UNCHANGED <<generationError, isKeyRequired, outline, landmarkImages>>
    /\ UNCHANGED playerVars

\* mutant: the late result runs the rest of generateNextSegment
LateResult_delivers(call, settlement) ==
    /\ call \in lateCalls
    /\ settlement \in ProviderSettlements
    /\ lateCalls' = lateCalls \ {call}
    /\ IF settlement = "resolved" /\ call.step = "audio"
       THEN /\ story' = InsertSegment(story, Segment(call.route, call.index))
            /\ schedulerDirty' = (schedulerDirty \/ story' # story)
            /\ playerDirty' = (playerDirty \/ story' # story)
       ELSE UNCHANGED <<story, schedulerDirty, playerDirty>>
    /\ isGeneratingRef' = FALSE
    /\ UNCHANGED <<appState, route, currentPlayingIndex, journeys, startup,
                   landmarksPromise, attempts, lastFailed, smoothProgress>>
    /\ UNCHANGED <<generationError, isKeyRequired, outline, landmarkImages>>
    /\ UNCHANGED <<isPlaying, isBuffering, currentSegmentIndex, indexRef, audioContextRef,
                   sourceRef, elapsed, segmentOffsetRef, rafClosure, activeSources>>

\* the provider call settles after its timer has fired: promise.then clears a
\* timer that is gone, and Promise.race, settled by the timer, drops the value
LateResult(call, settlement) ==
    /\ call \in lateCalls
    /\ settlement \in ProviderSettlements
    /\ lateCalls' = lateCalls \ {call}
    /\ UNCHANGED <<appState, route, story, isGeneratingRef, currentPlayingIndex, journeys,
                   startup, landmarksPromise, attempts, lastFailed, schedulerDirty,
                   smoothProgress>>
    /\ UNCHANGED <<generationError, isKeyRequired, outline, landmarkImages>>
    /\ UNCHANGED playerVars

\* ------------------------------------------------------ StoryPlayer: playback
\* mutant: the node in sourceRef is forgotten without being stopped
stopAudio_leavesSource(sounding, refSounds) == sounding

\* stopAudio(): the sources still sounding once the node in sourceRef, if it
\* sounds, got onended = null and stop()
stopAudio(sounding, refSounds) == IF refSounds THEN sounding - 1 ELSE sounding

\* playSegment(segment, offset) called from a render that sees closureStory;
\* bufferingIfPlayable is what the caller leaves in isBuffering when audio exists,
\* sounding and refSounds describe the sources at the moment of the call
playSegment(segment, offset, closureStory, bufferingIfPlayable, sounding, refSounds) ==
    IF ~segment.audioBuffer
    THEN /\ isBuffering' = TRUE
         /\ activeSources' = sounding
         /\ UNCHANGED <<audioContextRef, sourceRef, elapsed>>
    ELSE /\ isBuffering' = bufferingIfPlayable
         /\ audioContextRef' = TRUE
         /\ activeSources' = stopAudio(sounding, refSounds) + 1
         /\ sourceRef' = [index |-> segment.index, route |-> segment.route, story |-> closureStory]
         /\ elapsed' = offset

\* mutant: the stopped source still reports its end and the cursor moves on
togglePlayback_pauseAdvances ==
    /\ Mounted
    /\ IF isPlaying
       THEN /\ segmentOffsetRef' = IF audioContextRef /\ ~isBuffering THEN elapsed ELSE segmentOffsetRef
            /\ activeSources' = stopAudio(activeSources, sourceRef # NoSource)
            /\ sourceRef' = NoSource
            /\ isPlaying' = FALSE
            /\ currentSegmentIndex' =
                 IF sourceRef # NoSource /\ currentSegmentIndex + 1 < story.totalSegmentsEstimate
                 THEN currentSegmentIndex + 1 ELSE currentSegmentIndex
            /\ UNCHANGED <<isBuffering, audioContextRef, elapsed>>
       ELSE /\ isPlaying' = TRUE
            /\ playSegment(SegmentAt(story, currentSegmentIndex), segmentOffsetRef, story, FALSE,
                           activeSources, sourceRef # NoSource)
            /\ UNCHANGED <<segmentOffsetRef, currentSegmentIndex>>
    /\ playerDirty' = TRUE
    /\ UNCHANGED <<indexRef, rafClosure>>
    /\ UNCHANGED appVars

\* mutant: pressing play leaves Buffering as it was
togglePlayback_keepsBuffering ==
    /\ Mounted
    /\ IF isPlaying
       THEN /\ segmentOffsetRef' = IF audioContextRef /\ ~isBuffering THEN elapsed ELSE segmentOffsetRef
            /\ activeSources' = stopAudio(activeSources, sourceRef # NoSource)
            /\ sourceRef' = NoSource
            /\ isPlaying' = FALSE
            /\ UNCHANGED <<isBuffering, audioContextRef, elapsed>>
       ELSE /\ isPlaying' = TRUE
            /\ playSegment(SegmentAt(story, currentSegmentIndex), segmentOffsetRef, story, isBuffering,
                           activeSources, sourceRef # NoSource)
            /\ UNCHANGED segmentOffsetRef
    /\ playerDirty' = TRUE
    /\ UNCHANGED <<currentSegmentIndex, indexRef, rafClosure>>
    /\ UNCHANGED appVars

\* mutant: resuming starts the chapter from its beginning
togglePlayback_restartsChapter ==
    /\ Mounted
    /\ IF isPlaying
       THEN /\ segmentOffsetRef' = IF audioContextRef /\ ~isBuffering THEN elapsed ELSE segmentOffsetRef
            /\ activeSources' = stopAudio(activeSources, sourceRef # NoSource)
            /\ sourceRef' = NoSource
            /\ isPlaying' = FALSE
            /\ UNCHANGED <<isBuffering, audioContextRef, elapsed>>
       ELSE /\ isPlaying' = TRUE
            /\ playSegment(SegmentAt(story, currentSegmentIndex), 0, story, FALSE,
                           activeSources, sourceRef # NoSource)
            /\ UNCHANGED segmentOffsetRef
    /\ playerDirty' = TRUE
    /\ UNCHANGED <<currentSegmentIndex, indexRef, rafClosure>>
    /\ UNCHANGED appVars

togglePlayback ==
    /\ Mounted
    /\ IF isPlaying
       THEN /\ segmentOffsetRef' = IF audioContextRef /\ ~isBuffering THEN elapsed ELSE segmentOffsetRef
            /\ activeSources' = stopAudio(activeSources, sourceRef # NoSource)
            /\ sourceRef' = NoSource
            /\ isPlaying' = FALSE
            /\ UNCHANGED <<isBuffering, audioContextRef, elapsed>>
       ELSE /\ isPlaying' = TRUE
            /\ playSegment(SegmentAt(story, currentSegmentIndex), segmentOffsetRef, story, FALSE,
                           activeSources, sourceRef # NoSource)
            /\ UNCHANGED segmentOffsetRef
    /\ playerDirty' = TRUE
    /\ UNCHANGED <<currentSegmentIndex, indexRef, rafClosure>>
    /\ UNCHANGED appVars

\* (index + Math.min(1, seconds / duration)) / total as the fraction num / den;
\* the number 0 is written 0 / 1 as setSmoothProgress(0) leaves it
Progress(index, seconds, total) ==
    LET num == index * ChapterDuration + Min(ChapterDuration, seconds)
    IN  IF num = 0 THEN NoProgress ELSE [num |-> num, den |-> total * ChapterDuration]

\* the registered updateProgress loop has a value to push: the state it tests
\* is the one it closed over, the audio clock and the refs are read live
FramePending ==
    /\ Mounted
    /\ rafClosure.isPlaying /\ ~rafClosure.isBuffering
    /\ audioContextRef /\ rafClosure.audioBuffer
    /\ smoothProgress # Progress(rafClosure.currentSegmentIndex, elapsed,
                                  rafClosure.totalSegmentsEstimate)

\* the audio clock advances under the active source by a sizeable part of a
\* chapter; pending effects flush first and the animation frames keep up
Tick ==
    /\ sourceRef # NoSource
    /\ elapsed < ChapterDuration
    /\ ~playerDirty /\ ~schedulerDirty
    /\ ~FramePending
    /\ elapsed' = elapsed + 1
    /\ UNCHANGED <<isPlaying, isBuffering, currentSegmentIndex, indexRef, audioContextRef,
                   sourceRef, segmentOffsetRef, playerDirty, rafClosure, activeSources>>
    /\ UNCHANGED appVars

\* mutant: the animation frame pushes a value while Buffering is rendered
updateProgress_ignoresBuffering ==
    /\ Mounted
    /\ rafClosure.isPlaying
    /\ audioContextRef /\ rafClosure.audioBuffer
    /\ smoothProgress' = Progress(rafClosure.currentSegmentIndex, elapsed,
                                  rafClosure.totalSegmentsEstimate)
    /\ smoothProgress' # smoothProgress
    /\ UNCHANGED <<appState, route, story, isGeneratingRef, currentPlayingIndex, journeys,
                   startup, landmarksPromise, attempts, lastFailed, schedulerDirty>>
    /\ UNCHANGED playerVars
    /\ UNCHANGED startVars

\* one animation frame of the registered updateProgress
updateProgress ==
    /\ FramePending
    /\ smoothProgress' = Progress(rafClosure.currentSegmentIndex, elapsed,
                                  rafClosure.totalSegmentsEstimate)
    /\ UNCHANGED <<appState, route, story, isGeneratingRef, currentPlayingIndex, journeys,
                   startup, landmarksPromise, attempts, lastFailed, schedulerDirty>>
    /\ UNCHANGED playerVars
    /\ UNCHANGED startVars

\* mutant: the handler skips a chapter
handleSegmentEnd_skips(closureStory) ==
    LET nextIndex == indexRef + 2
        next == SegmentAt(closureStory, nextIndex)
    IN  IF nextIndex < closureStory.totalSegmentsEstimate \/ next.index # 0
        THEN /\ currentSegmentIndex' = nextIndex
             /\ segmentOffsetRef' = 0
             /\ IF next.audioBuffer
                THEN playSegment(next, 0, closureStory, isBuffering, activeSources - 1, FALSE)
                ELSE /\ isBuffering' = TRUE
                     /\ sourceRef' = NoSource
                     /\ activeSources' = activeSources - 1
                     /\ UNCHANGED <<audioContextRef, elapsed>>
             /\ UNCHANGED isPlaying
        ELSE /\ isPlaying' = FALSE
             /\ sourceRef' = NoSource
             /\ activeSources' = activeSources - 1
             /\ UNCHANGED <<isBuffering, currentSegmentIndex, segmentOffsetRef,
                            audioContextRef, elapsed>>

\* mutant: the handler advances the cursor after the last chapter too
handleSegmentEnd_neverEnds(closureStory) ==
    LET nextIndex == indexRef + 1
        next == SegmentAt(closureStory, nextIndex)
    IN  /\ currentSegmentIndex' = nextIndex
        /\ segmentOffsetRef' = 0
        /\ IF next.audioBuffer
           THEN playSegment(next, 0, closureStory, isBuffering, activeSources - 1, FALSE)
           ELSE /\ isBuffering' = TRUE
                /\ sourceRef' = NoSource
                /\ activeSources' = activeSources - 1
                /\ UNCHANGED <<audioContextRef, elapsed>>
        /\ UNCHANGED isPlaying

\* handleSegmentEnd as captured by the ended source: it sees the story of the
\* render that started the source, and the cursor through indexRef
handleSegmentEnd(closureStory) ==
    LET nextIndex == indexRef + 1
        next == SegmentAt(closureStory, nextIndex)
    IN  IF nextIndex < closureStory.totalSegmentsEstimate \/ next.index # 0
        THEN /\ currentSegmentIndex' = nextIndex
             /\ segmentOffsetRef' = 0
             /\ IF next.audioBuffer
                THEN playSegment(next, 0, closureStory, isBuffering, activeSources - 1, FALSE)
                ELSE /\ isBuffering' = TRUE
                     /\ sourceRef' = NoSource
                     /\ activeSources' = activeSources - 1
                     /\ UNCHANGED <<audioContextRef, elapsed>>
             /\ UNCHANGED isPlaying
        ELSE /\ isPlaying' = FALSE
             /\ sourceRef' = NoSource
             /\ activeSources' = activeSources - 1
             /\ UNCHANGED <<isBuffering, currentSegmentIndex, segmentOffsetRef,
                            audioContextRef, elapsed>>

\* source.onended after the buffer played to its end
SegmentEnd ==
    /\ sourceRef # NoSource
    /\ audioContextRef
    /\ elapsed >= ChapterDuration
    /\ handleSegmentEnd(sourceRef.story)
    /\ playerDirty' = TRUE
    /\ UNCHANGED <<indexRef, rafClosure>>
    /\ UNCHANGED appVars

\* mutant: the buffering-resolve effect does not look at isPlaying
PlayerEffects_resumesPaused ==
    /\ playerDirty
    /\ rafClosure' = [isPlaying |-> isPlaying, isBuffering |-> isBuffering,
                      currentSegmentIndex |-> currentSegmentIndex,
                      audioBuffer |-> SegmentAt(story, currentSegmentIndex).audioBuffer,
                      totalSegmentsEstimate |-> story.totalSegmentsEstimate]
    /\ indexRef' = currentSegmentIndex
    /\ currentPlayingIndex' = currentSegmentIndex
    /\ schedulerDirty' = (schedulerDirty \/ currentPlayingIndex # currentSegmentIndex)
    /\ IF isBuffering /\ SegmentAt(story, currentSegmentIndex).audioBuffer
       THEN /\ playSegment(SegmentAt(story, currentSegmentIndex), 0, story, FALSE,
                           activeSources, sourceRef # NoSource)
            /\ playerDirty' = TRUE
       ELSE /\ playerDirty' = FALSE
            /\ UNCHANGED <<isBuffering, audioContextRef, sourceRef, elapsed, activeSources>>
    /\ UNCHANGED <<isPlaying, currentSegmentIndex, segmentOffsetRef>>
    /\ UNCHANGED <<appState, route, story, isGeneratingRef, journeys, startup,
                   landmarksPromise, attempts, lastFailed, smoothProgress>>
    /\ UNCHANGED startVars

\* the passive effects of StoryPlayer, in the order they are declared: the
\* updateProgress loop is registered again, indexRef sync, onSegmentChange,
\* buffering resolve
PlayerEffects ==
    /\ playerDirty
    /\ rafClosure' = [isPlaying |-> isPlaying, isBuffering |-> isBuffering,
                      currentSegmentIndex |-> currentSegmentIndex,
                      audioBuffer |-> SegmentAt(story, currentSegmentIndex).audioBuffer,
                      totalSegmentsEstimate |-> story.totalSegmentsEstimate]
    /\ indexRef' = currentSegmentIndex
    /\ currentPlayingIndex' = currentSegmentIndex
    /\ schedulerDirty' = (schedulerDirty \/ currentPlayingIndex # currentSegmentIndex)
    /\ IF isBuffering /\ isPlaying /\ SegmentAt(story, currentSegmentIndex).audioBuffer
       THEN /\ playSegment(SegmentAt(story, currentSegmentIndex), 0, story, FALSE,
                           activeSources, sourceRef # NoSource)
            /\ playerDirty' = TRUE
       ELSE /\ playerDirty' = FALSE
            /\ UNCHANGED <<isBuffering, audioContextRef, sourceRef, elapsed, activeSources>>
    /\ UNCHANGED <<isPlaying, currentSegmentIndex, segmentOffsetRef>>
    /\ UNCHANGED <<appState, route, story, isGeneratingRef, journeys, startup,
                   landmarksPromise, attempts, lastFailed, smoothProgress>>
    /\ UNCHANGED startVars

\* ------------------------------------------------------------ specification
Next ==
    \/ \E d \in Durations : handleGenerateStory(d)
    \/ handleOpenKeySelector
    \/ OutlineSettles(UsualOutlineReply(calculateTotalSegments(route.durationSeconds)))
    \/ \E o \in StartupSettlements(startup) : StartupSettles(o)
    \/ StartupClose
    \/ LandmarksResolve(UsualLandmarkReply, {})
    \/ StartupFinish
    \/ handleReset
    \/ SchedulerEffect
    \/ \E k \in DOMAIN attempts : \E o \in withTimeout(ProviderSettlements) : AttemptSettles(k, o)
    \/ \E k \in DOMAIN attempts : AttemptCompletes(k)
    \/ togglePlayback
    \/ Tick
    \/ updateProgress
    \/ SegmentEnd
    \/ PlayerEffects

Spec == Init /\ [][Next]_vars

\* the start of a journey under every reply the provider can give for the
\* outline, the landmark names and the landmark images; the journeys before
\* the last one got the usual replies, and nobody presses play
StartupOutlineReplies ==
    IF journeys = MaxJourneys THEN OutlineReplies
    ELSE {UsualOutlineReply(calculateTotalSegments(route.durationSeconds))}
StartupLandmarkReplies == IF journeys = MaxJourneys THEN LandmarkReplies ELSE {UsualLandmarkReply}
StartupImageFailures(reply) ==
    IF journeys = MaxJourneys THEN SUBSET (1..Len(getFamousLandmarks(reply))) ELSE {{}}

NextStartup ==
    \/ \E d \in Durations : handleGenerateStory(d)
    \/ handleOpenKeySelector
    \/ \E reply \in StartupOutlineReplies : OutlineSettles(reply)
    \/ \E o \in StartupSettlements(startup) : StartupSettles(o)
    \/ StartupClose
    \/ \E reply \in StartupLandmarkReplies :
          \E failed \in StartupImageFailures(reply) : LandmarksResolve(reply, failed)
    \/ StartupFinish
    \/ handleReset
    \/ SchedulerEffect
    \/ \E k \in DOMAIN attempts : \E o \in withTimeout(ProviderSettlements) : AttemptSettles(k, o)
    \/ \E k \in DOMAIN attempts : AttemptCompletes(k)
    \/ PlayerEffects

StartupSpec == Init /\ [][NextStartup]_vars

\* a timer set by withTimeout fires, and the local tempCtx.close() returns;
\* the Content Provider itself may hang forever
FairSpec ==
    /\ Spec
    /\ WF_vars(\E k \in DOMAIN attempts : AttemptSettles(k, "timeout"))
    /\ WF_vars(\E k \in DOMAIN attempts : AttemptCompletes(k))


\* ------------------------------------------------------------------ claims
\* steps of the scheduler and of a generation attempt, read off the state
SchedulerRuns == schedulerDirty /\ ~schedulerDirty'
GenerationStarted == Len(attempts') = Len(attempts) + 1
StartedAttempt == attempts'[Len(attempts')]
StartupGenerating == IF startup \in {"text", "audio"} THEN 1 ELSE 0

\* C1 (as stated): at any instant at most one chapter generation, a text request
\* followed by an audio request, is in flight, over resets and new journey starts;
\* the first chapter of a journey start is such a generation too.
C1_OneGenerationInFlight == Len(attempts) + StartupGenerating <= 1

\* C1 (amended): at most one background generation attempt is in flight and the
\* generation lock is held exactly while that attempt runs; the first-chapter
\* generation of a journey start runs outside the lock.
C1_SingleFlight == Len(attempts) <= 1 /\ (isGeneratingRef <=> Len(attempts) = 1)

\* the lock is held by an attempt of a discarded journey while the scheduler of
\* the new journey wants the next chapter
C1_Witness ==
    /\ Mounted /\ route.id = 2
    /\ Len(attempts) = 1 /\ attempts[1].route = 1
    /\ Len(story.segments) < currentPlayingIndex + 2
    /\ ~schedulerDirty

\* C2: in every reachable state the Story's chapter list is in strictly
\* ascending index order, so no two chapters share an index.
C2_StrictlyAscending ==
    \A k \in DOMAIN story.segments : \A m \in DOMAIN story.segments :
        k < m => story.segments[k].index < story.segments[m].index

\* a completed generation met a Story that already had its index and left it alone
C2_Witness ==
    /\ Mounted /\ story.totalSegmentsEstimate >= 3
    /\ Len(story.segments) = 2 /\ story.segments[2].index = 3
    /\ currentPlayingIndex = 1
    /\ attempts = <<>> /\ ~schedulerDirty /\ ~isGeneratingRef
    /\ lastFailed = NoFailure

\* C3: after a reset no chapter generated for the discarded journey is present in
\* the Story of a later journey: every chapter of the Story was generated for the
\* current route.
C3_NoStaleChapter ==
    \A k \in DOMAIN story.segments : story.segments[k].route = route.id

\* C4: when the scheduler effect runs (cursor or Story changed), generation of
\* chapter buffered + 1 is started if and only if the journey is playable,
\* buffered < cursor + 2, buffered < totalChaptersEstimate and the lock is free;
\* nothing else starts a generation.
C4_TriggerCondition ==
    [][ /\ GenerationStarted => SchedulerRuns
        /\ SchedulerRuns =>
             LET buffered == Len(story.segments)
                 needed == currentPlayingIndex + 2
             IN  /\ GenerationStarted <=>
                        /\ appState = "READY_TO_PLAY" /\ story # NoStory /\ route # NoRoute
                        /\ buffered < needed
                        /\ buffered < story.totalSegmentsEstimate
                        /\ ~isGeneratingRef
                 /\ GenerationStarted =>
                        /\ StartedAttempt.index = buffered + 1
                        /\ StartedAttempt.step = "text"
                        /\ isGeneratingRef' ]_vars

\* the cursor moved to the second chapter and the third one was requested
C4_Witness ==
    /\ Mounted /\ currentPlayingIndex = 1
    /\ Len(attempts) = 1 /\ attempts[1].route = route.id
    /\ attempts[1].index = 3 /\ Len(story.segments) = 2

\* C5: the scheduler never requests an index above totalChaptersEstimate, and
\* with buffered = totalChaptersEstimate no generation is triggered.
C5_NeverBeyondEstimate ==
    [][ /\ GenerationStarted => StartedAttempt.index <= story.totalSegmentsEstimate
        /\ (story # NoStory /\ Len(story.segments) >= story.totalSegmentsEstimate)
              => ~GenerationStarted ]_vars

\* estimate 2: both chapters buffered, the cursor on the second, nothing requested
C5_Witness ==
    /\ Mounted /\ story.totalSegmentsEstimate = 2
    /\ Len(story.segments) = 2 /\ story.segments[2].index = 2
    /\ currentPlayingIndex = 1
    /\ attempts = <<>> /\ ~schedulerDirty


\* C6: chapters are requested in increasing order without skipping: a request for
\* index i is issued only when chapters 1..i-1 are all in the Story and i is not.
C6_NoSkipAhead ==
    [][ GenerationStarted =>
            /\ \A i \in 1..(StartedAttempt.index - 1) : i \in Indices(story)
            /\ StartedAttempt.index \notin Indices(story) ]_vars

\* the only running attempt ends in its catch block (text or audio step)
AttemptFails ==
    /\ Len(attempts) = 1 /\ attempts' = <<>>
    /\ attempts[1].step \in {"text", "audio"}

\* the only running attempt ends after its setStory call
AttemptInserts ==
    /\ Len(attempts) = 1 /\ attempts' = <<>>
    /\ attempts[1].step = "close"

\* C7: a background attempt that fails or times out, at the text or at the audio
\* step, leaves the Story as it was when the attempt started and releases the lock.
C7_FailureLeavesStory ==
    [][ AttemptFails =>
            /\ story' = story
            /\ ~isGeneratingRef'
            /\ (story # NoStory /\ route.id = attempts[1].route) => story' = attempts[1].story
       ]_vars

\* a request of the running journey was rejected by the provider: the chapter is
\* still missing and the lock is free
C7_Witness ==
    /\ Mounted /\ lastFailed.route = route.id
    /\ lastFailed.error = "provider error"
    /\ lastFailed.index = Len(story.segments) + 1
    /\ ~isGeneratingRef /\ attempts = <<>>

\* C8: every acquisition of the generation lock is eventually followed by its
\* release, also when the Content Provider never answers.
C8_LockReleased == isGeneratingRef ~> ~isGeneratingRef

\* the 100 s audio timer ended an attempt and the lock is free again
C8_Witness ==
    /\ lastFailed.error = "Audio generation timeout"
    /\ ~isGeneratingRef /\ attempts = <<>>

\* C9: a text timeout for index i leaves the Story with its i-1 earlier chapters
\* and frees the lock; while chapter i of that journey is still missing, the next
\* scheduler run with buffered < needed requests index i again.
C9_RetrySameIndex ==
    [][ /\ (AttemptFails /\ attempts[1].step = "text"
                /\ lastFailed'.error = "Text generation timeout") =>
              /\ story' = story
              /\ ~isGeneratingRef'
              /\ (story # NoStory /\ route.id = attempts[1].route)
                    => Len(story'.segments) = attempts[1].index - 1
        /\ ( /\ SchedulerRuns
             /\ Mounted
             /\ lastFailed.route = route.id
             /\ lastFailed.index \notin Indices(story)
             /\ Len(story.segments) < currentPlayingIndex + 2
             /\ Len(story.segments) < story.totalSegmentsEstimate
             /\ ~isGeneratingRef ) =>
              /\ GenerationStarted
              /\ StartedAttempt.index = lastFailed.index ]_vars

\* the retry is in flight: the index that timed out was requested again
C9_Witness ==
    /\ Mounted
    /\ lastFailed.error = "Text generation timeout"
    /\ Len(attempts) = 1
    /\ attempts[1].index = lastFailed.index
    /\ attempts[1].route = lastFailed.route
    /\ attempts[1].route = route.id
    /\ lastFailed.index \notin Indices(story)

\* C10: when a generation completes for an index the Story already has, the Story
\* is left unchanged; otherwise exactly one chapter with that index is added, the
\* earlier chapters are kept and the list is in index order.  (With no Story at
\* all, after a reset, there is nothing to insert into.)
C10_IdempotentInsert ==
    [][ AttemptInserts =>
            LET i == attempts[1].index
            IN  IF story = NoStory \/ i \in Indices(story)
                THEN story' = story
                ELSE /\ Len(story'.segments) = Len(story.segments) + 1
                     /\ Cardinality({k \in DOMAIN story'.segments :
                                        story'.segments[k].index = i}) = 1
                     /\ \A k \in DOMAIN story.segments :
                            \E m \in DOMAIN story'.segments :
                                story'.segments[m] = story.segments[k]
                     /\ \A k \in DOMAIN story'.segments : \A m \in DOMAIN story'.segments :
                            k < m => story'.segments[k].index < story'.segments[m].index
                     /\ story'.totalSegmentsEstimate = story.totalSegmentsEstimate
       ]_vars

\* a chapter was inserted behind the first one, and a finished generation for the
\* same index now stands before its setStory call
C10_Witness ==
    /\ Len(story.segments) = 2
    /\ Len(attempts) = 1 /\ attempts[1].step = "close"
    /\ attempts[1].index = story.segments[2].index
    /\ attempts[1].route = route.id


\* C11 (as stated): when the audio of the current chapter completes and it is
\* not the last one, the cursor advances to the next index; if the Story holds
\* that chapter's audio at that moment it starts at offset 0 and the engine
\* does not enter Buffering, and if the Story does not hold it the engine
\* enters Buffering
C11_SeamlessChaining ==
    [][(SegmentEnd /\ currentSegmentIndex + 1 < story.totalSegmentsEstimate) =>
        LET next == SegmentAt(story, currentSegmentIndex + 1)
        IN  /\ currentSegmentIndex' = currentSegmentIndex + 1
            /\ IF next.audioBuffer
               THEN ~isBuffering' /\ sourceRef' # NoSource /\ sourceRef'.index = next.index
                    /\ elapsed' = 0
               ELSE isBuffering' /\ sourceRef' = NoSource]_vars

\* the Buffering state as last rendered into the registered updateProgress loop
RenderedBuffering == rafClosure.isBuffering

FirstPlay == ~audioContextRef /\ togglePlayback

\* one playback run per journey: play is pressed once and never paused
NextUninterrupted ==
    \/ \E d \in Durations : handleGenerateStory(d)
    \/ handleOpenKeySelector
    \/ OutlineSettles(UsualOutlineReply(calculateTotalSegments(route.durationSeconds)))
    \/ \E o \in StartupSettlements(startup) : StartupSettles(o)
    \/ StartupClose
    \/ LandmarksResolve(UsualLandmarkReply, {})
    \/ StartupFinish
    \/ handleReset
    \/ SchedulerEffect
    \/ \E k \in DOMAIN attempts : \E o \in withTimeout(ProviderSettlements) : AttemptSettles(k, o)
    \/ \E k \in DOMAIN attempts : AttemptCompletes(k)
    \/ FirstPlay
    \/ Tick
    \/ updateProgress
    \/ SegmentEnd
    \/ PlayerEffects

UninterruptedSpec == Init /\ [][NextUninterrupted]_vars

\* C13 (as stated): within one uninterrupted playback run of a journey, from
\* chapter 1 to the terminal chapter, the progress value never decreases, over
\* animation frames, chapter transitions and Buffering
C13_MonotoneProgress ==
    [][(Mounted /\ Mounted')
        => smoothProgress.num * smoothProgress'.den <= smoothProgress'.num * smoothProgress.den]_vars

\* an animation frame hands a new progress value to the App
ProgressPushed == Mounted /\ Mounted' /\ smoothProgress' # smoothProgress

\* C14 (as stated): every progress value pushed lies in [0, 1] and, pushed
\* while a chapter plays, equals (cursor + min(1, elapsed / chapter duration))
\* / totalSegmentsEstimate for the cursor and the audio position of that moment
C14_ProgressFormula ==
    [][ProgressPushed =>
        /\ 0 <= smoothProgress'.num /\ smoothProgress'.num <= smoothProgress'.den
        /\ ~isBuffering =>
             smoothProgress' = Progress(currentSegmentIndex, elapsed, story.totalSegmentsEstimate)]_vars

\* C15: pausing while a chapter sounds records the audio position as offset and
\* stops the source; while paused the offset and the cursor stay; resuming
\* plays the same chapter from the recorded offset, not from 0; neither press
\* moves the cursor, starts a generation request or wakes the scheduler
C15_PauseResume ==
    [][/\ (togglePlayback /\ isPlaying /\ sourceRef # NoSource)
          => /\ ~isPlaying' /\ sourceRef' = NoSource
             /\ segmentOffsetRef' = elapsed
             /\ currentSegmentIndex' = currentSegmentIndex
             /\ attempts' = attempts /\ schedulerDirty' = schedulerDirty
       /\ (~isPlaying /\ ~isPlaying' /\ Mounted /\ Mounted')
          => /\ segmentOffsetRef' = segmentOffsetRef
             /\ currentSegmentIndex' = currentSegmentIndex
       /\ (togglePlayback /\ ~isPlaying /\ SegmentAt(story, currentSegmentIndex).audioBuffer)
          => /\ isPlaying' /\ ~isBuffering'
             /\ sourceRef' # NoSource
             /\ sourceRef'.index = SegmentAt(story, currentSegmentIndex).index
             /\ elapsed' = segmentOffsetRef
             /\ currentSegmentIndex' = currentSegmentIndex
             /\ attempts' = attempts /\ schedulerDirty' = schedulerDirty]_vars

\* a chapter sounds again from a position strictly inside it
C15_Witness ==
    /\ isPlaying /\ sourceRef # NoSource
    /\ segmentOffsetRef > 0 /\ segmentOffsetRef < ChapterDuration
    /\ elapsed = segmentOffsetRef
    /\ rafClosure.isPlaying = FALSE

\* the cursor is on the last chapter of the estimate and the Story holds it
LastChapterReady ==
    /\ Mounted
    /\ currentSegmentIndex + 1 >= story.totalSegmentsEstimate
    /\ SegmentAt(story, currentSegmentIndex).audioBuffer
    /\ SegmentAt(story, currentSegmentIndex + 1).index = 0

\* C16: when the chapter that completes is the last one (the next index is not
\* below the estimate and the Story holds no further chapter) the engine stops:
\* not playing, not Buffering, no source, cursor unchanged; and from then on
\* no step of the journey enters Buffering
C16_EndOfStory ==
    [][/\ (SegmentEnd /\ LastChapterReady)
          => /\ ~isPlaying' /\ ~isBuffering'
             /\ sourceRef' = NoSource
             /\ currentSegmentIndex' = currentSegmentIndex
       /\ (LastChapterReady /\ Mounted' /\ ~isBuffering)
          => ~isBuffering' /\ LastChapterReady']_vars

\* the last chapter played to its end and the engine stopped
C16_Witness ==
    /\ LastChapterReady
    /\ ~isPlaying /\ ~isBuffering
    /\ audioContextRef /\ sourceRef = NoSource
    /\ elapsed >= ChapterDuration /\ segmentOffsetRef = 0
    /\ currentSegmentIndex >= 1

\* C17: a reset, from a playing, a paused or a Buffering player alike, returns
\* the system to the planning state with no Story, playing index 0, progress 0,
\* no sounding source and a player that is neither playing nor Buffering; and
\* nothing that happens while planning brings any of it back
C17_ResetClearsJourney ==
    [][appState' = "PLANNING" =>
        /\ story' = NoStory
        /\ currentPlayingIndex' = 0
        /\ smoothProgress' = NoProgress
        /\ activeSources' = 0 /\ sourceRef' = NoSource
        /\ ~isPlaying' /\ ~isBuffering' /\ currentSegmentIndex' = 0]_vars

\* a reset was pressed after the first chapter had played to its end: the
\* request for chapter 3, made at cursor 1, is still in flight
C17_Witness ==
    /\ appState = "PLANNING" /\ route = NoRoute /\ journeys >= 1
    /\ \E k \in DOMAIN attempts : attempts[k].index >= 3
    /\ story = NoStory /\ smoothProgress = NoProgress

\* C18 (as stated): a reset leaves the generation lock free, together with the
\* cleared chapters and cursor, also when a generation is in flight at that moment
C18_ResetFreesLock ==
    [][(Mounted /\ appState' = "PLANNING") => ~isGeneratingRef']_vars

\* a journey whose generation attempts all succeed, heard without pausing
NextSuccess ==
    \/ \E d \in Durations : handleGenerateStory(d)
    \/ handleOpenKeySelector
    \/ OutlineSettles(UsualOutlineReply(calculateTotalSegments(route.durationSeconds)))
    \/ \E o \in StartupSettlements(startup) : StartupSettles(o)
    \/ StartupClose
    \/ LandmarksResolve(UsualLandmarkReply, {})
    \/ StartupFinish
    \/ handleReset
    \/ SchedulerEffect
    \/ \E k \in DOMAIN attempts : AttemptSettles(k, "resolved")
    \/ \E k \in DOMAIN attempts : AttemptCompletes(k)
    \/ FirstPlay
    \/ Tick
    \/ updateProgress
    \/ SegmentEnd
    \/ PlayerEffects

\* React runs the effects of a committed render; every awaited text, audio and
\* close() call of an attempt returns
SuccessSpec ==
    /\ Init /\ [][NextSuccess]_vars
    /\ WF_vars(SchedulerEffect)
    /\ WF_vars(PlayerEffects)
    /\ WF_vars(\E k \in DOMAIN attempts : AttemptSettles(k, "resolved"))
    /\ WF_vars(\E k \in DOMAIN attempts : AttemptCompletes(k))

\* C19 (as stated): when every generation attempt succeeds, every Buffering
\* state is eventually left
C19_BufferingEnds == isBuffering ~> ~isBuffering

\* C20: at most one audio source sounds at any time: whenever a source is
\* started the previous one has ended or was stopped first, and the source
\* that sounds is the one sourceRef holds
C20_SingleSource ==
    /\ activeSources <= 1
    /\ activeSources = (IF sourceRef # NoSource THEN 1 ELSE 0)

\* a chapter sounds again after a pause stopped its first source
C20_Witness ==
    /\ activeSources = 1 /\ isPlaying
    /\ segmentOffsetRef > 0 /\ elapsed >= segmentOffsetRef
    /\ currentSegmentIndex >= 1

\* C21: a journey becomes playable only once the first chapter's text and then
\* its audio have completed, and the Story created at that moment holds
\* exactly chapter 1 with audio; when the outline, the first text or the first
\* audio fails or times out the journey is back in planning with a message
\* shown and no Story
C21_PlayableAfterFirstChapter ==
    [][/\ (~Mounted /\ Mounted') =>
            /\ startup = "landmarks"
            /\ appState' = "READY_TO_PLAY"
            /\ story'.segments = <<[index |-> 1, route |-> route.id, audioBuffer |-> TRUE]>>
       /\ (startup' = "landmarks" /\ startup # "landmarks") => startup = "close"
       /\ (startup' = "close" /\ startup # "close") => startup = "audio"
       /\ (startup' = "audio" /\ startup # "audio") => startup = "text"
       /\ (startup \in {"outline", "text", "audio"} /\ startup' = "idle") =>
            /\ appState' = "PLANNING"
            /\ generationError' \in {GENERIC_MESSAGE, UPGRADE_MESSAGE}
            /\ story' = NoStory
       /\ (story' # NoStory) => appState' = "READY_TO_PLAY"
      ]_vars

\* the first chapter of the second journey is ready and its Story was just created
C21_Witness ==
    /\ Mounted /\ journeys = 2 /\ playerDirty
    /\ Len(story.segments) = 1 /\ story.segments[1].audioBuffer
    /\ Len(story.outline) < story.totalSegmentsEstimate

\* C22 (as stated): the landmark pipeline does not keep playback from starting:
\* once the first chapter's text and audio have completed the journey can
\* become playable, whether or not the landmark requests have completed
C22_LandmarksNeverBlock ==
    (startup = "landmarks") => ENABLED StartupFinish

\* C23: a failure of the landmark-name lookup or of a landmark image never
\* aborts or alters the journey: the settled landmark pipeline yields images
\* of the generic names or of at most four provider names, in their order and
\* with every failed image left out, the Story gets exactly that list, and the
\* step leaves the journey state, its chapters, the cursor, the lock and the
\* error message as they were
C23_LandmarkFailuresHarmless ==
    [][/\ (landmarksPromise = "pending" /\ landmarksPromise' = "resolved") =>
            /\ \A i \in DOMAIN landmarkImages' : landmarkImages'[i].n >= 1
            /\ \A i, j \in DOMAIN landmarkImages' :
                   /\ landmarkImages'[i].generic = landmarkImages'[j].generic
                   /\ i < j => landmarkImages'[i].n < landmarkImages'[j].n
            /\ \A i \in DOMAIN landmarkImages' :
                   landmarkImages'[i].n <= (IF landmarkImages'[i].generic THEN Len(GENERIC_LANDMARKS) ELSE LANDMARK_CAP)
            /\ UNCHANGED <<appState, startup, route, story, attempts, isGeneratingRef,
                           currentPlayingIndex, currentSegmentIndex, generationError,
                           isKeyRequired, outline>>
       /\ (~Mounted /\ Mounted') => story'.landmarkImages = landmarkImages
      ]_vars

\* the name lookup failed and so did the image of one of the first two generic
\* names, while an attempt of the journey before holds the lock
C23_Witness ==
    /\ landmarksPromise = "resolved" /\ startup = "audio"
    /\ Len(landmarkImages) = 2
    /\ landmarkImages[1].generic /\ landmarkImages[2].n = 3
    /\ isGeneratingRef

\* C24: a generation failure does not break playback of what is available:
\* pressing play while the chapter at the cursor has audio starts that chapter
\* from the stored offset whatever the state of the background generation; no
\* start, failure, timeout or completion of a generation attempt touches the
\* sounding source, the audio clock or the cursor; and a source that has not
\* played to its end is taken away only by the user's pause or reset
C24_PlaybackSurvivesGeneration ==
    [][/\ (Mounted /\ ~isPlaying /\ isPlaying'
             /\ SegmentAt(story, currentSegmentIndex).audioBuffer) =>
            /\ sourceRef' # NoSource
            /\ sourceRef'.index = story.segments[currentSegmentIndex + 1].index
            /\ sourceRef'.route = story.segments[currentSegmentIndex + 1].route
            /\ elapsed' = segmentOffsetRef
            /\ activeSources' >= 1
       /\ (attempts' # attempts \/ lastFailed' # lastFailed \/ isGeneratingRef' # isGeneratingRef) =>
            UNCHANGED <<sourceRef, elapsed, isPlaying, activeSources, currentSegmentIndex,
                        segmentOffsetRef>>
       /\ (sourceRef # NoSource /\ elapsed < ChapterDuration /\ sourceRef' # sourceRef) =>
            \/ isPlaying /\ ~isPlaying'
            \/ ~Mounted'
      ]_vars

\* the chapter at the cursor has played to its end although the attempt for
\* the next chapter of this journey timed out on its audio
C24_Witness ==
    /\ Mounted /\ isPlaying /\ sourceRef # NoSource
    /\ sourceRef.route = route.id
    /\ elapsed = ChapterDuration
    /\ lastFailed.error = "Audio generation timeout"
    /\ lastFailed.route = route.id

\* C25: the estimated total of a journey is min(4, max(2, ceil(durationSeconds / 60))):
\* it lies in 2..4, it is the least count in that range whose minutes cover the
\* route (4 when none does), for the route of the journey and for every
\* duration up to MaxSeconds, and it never changes while the journey lasts
C25_EstimateInRange ==
    [][/\ (~Mounted /\ Mounted') =>
            /\ \A d \in (0..MaxSeconds) \cup {route.durationSeconds} :
                 LET t == IF d = route.durationSeconds THEN story'.totalSegmentsEstimate
                          ELSE calculateTotalSegments(d)
                 IN  /\ t \in SEGMENT_MIN..SEGMENT_CAP
                     /\ t > SEGMENT_MIN => d > (t - 1) * SECONDS_PER_SEGMENT
                     /\ t < SEGMENT_CAP => d <= t * SECONDS_PER_SEGMENT
       /\ (Mounted /\ Mounted') => story'.totalSegmentsEstimate = story.totalSegmentsEstimate
      ]_vars

\* a journey of 150 seconds got the estimate 3 and kept it while chapter 2 arrived
C25_Witness ==
    /\ Mounted /\ route.durationSeconds = 150
    /\ story.totalSegmentsEstimate = 3
    /\ Len(story.segments) >= 2

\* C26 (as stated): the outline of a Story has as many beats as the estimated
\* total, for every outline the provider can return and for the fallback
C26_OutlineLength ==
    Mounted => Len(story.outline) = story.totalSegmentsEstimate

\* C27: when the start-up fails with the provider's "Requested entity was not
\* found" error the upgrade message is set and the key-required gate is
\* raised; when it fails in any other way (another rejection, a timeout of the
\* outline, the text or the audio) the generic message is set and the gate
\* stays as it was; nothing else writes a message other than clearing it
C27_UpgradeMessage ==
    [][/\ StartupSettles("notFound") =>
            generationError' = "High-quality visuals require a paid API key." /\ isKeyRequired'
       /\ (StartupSettles("rejected") \/ StartupSettles("timeout")) =>
            /\ generationError' = "Failed to start story stream."
            /\ isKeyRequired' = isKeyRequired
       /\ (generationError' # generationError) =>
            \/ generationError' = NoError
            \/ startup \in {"outline", "text", "audio"} /\ startup' = "idle"
       /\ (~isKeyRequired /\ isKeyRequired') => generationError' = UPGRADE_MESSAGE
      ]_vars

\* a request for the first chapter was refused with the not-found error
C27_Witness ==
    /\ appState = "PLANNING" /\ journeys = 1
    /\ generationError = UPGRADE_MESSAGE
    /\ isKeyRequired
    /\ story = NoStory

\* C28: the playback cursor is moved by the player alone: the start of a
\* generation attempt, its failure and its chapter insert leave the cursor,
\* the cursor ref, the stored offset, isPlaying and isBuffering as they are;
\* the buffering-resolve effect that follows an insert clears isBuffering and
\* nothing else of these; and the cursor changes only when a source has played
\* to its end or when the player is mounted or reset
C28_CursorOnlyByPlayer ==
    [][/\ (GenerationStarted \/ AttemptFails \/ AttemptInserts) =>
            UNCHANGED <<currentSegmentIndex, indexRef, segmentOffsetRef, isPlaying, isBuffering>>
       /\ (Mounted /\ Mounted' /\ isPlaying /\ isPlaying' /\ isBuffering /\ ~isBuffering') =>
            UNCHANGED <<currentSegmentIndex, segmentOffsetRef, story, attempts, isGeneratingRef>>
       /\ (Mounted /\ Mounted' /\ currentSegmentIndex' # currentSegmentIndex) =>
            /\ sourceRef # NoSource /\ elapsed >= ChapterDuration
            /\ currentSegmentIndex' = indexRef + 1
            /\ UNCHANGED <<story, attempts, isGeneratingRef>>
      ]_vars

\* the player waits in Buffering at the second chapter while the Story holds
\* that chapter with audio and no attempt runs: the resolve effect is due
C28_Witness ==
    /\ Mounted /\ isPlaying /\ isBuffering
    /\ currentSegmentIndex = 1
    /\ Len(story.segments) = 2 /\ story.segments[2].audioBuffer
    /\ attempts = <<>> /\ playerDirty

\* C29: a press of play while not playing sets isPlaying; when the chapter at
\* the cursor has audio exactly one source sounds afterwards, for that chapter,
\* from the stored offset and with Buffering cleared; when it has none the
\* player is in Buffering and no source is started; the cursor, the stored
\* offset and the Story are the same in both cases
C29_TogglePlay ==
    [][(Mounted /\ ~isPlaying /\ isPlaying') =>
          /\ IF currentSegmentIndex + 1 \in DOMAIN story.segments
                /\ story.segments[currentSegmentIndex + 1].audioBuffer
             THEN /\ ~isBuffering'
                  /\ audioContextRef'
                  /\ sourceRef'.index = story.segments[currentSegmentIndex + 1].index
                  /\ sourceRef'.route = story.segments[currentSegmentIndex + 1].route
                  /\ elapsed' = segmentOffsetRef
                  /\ activeSources' = 1
             ELSE /\ isBuffering'
                  /\ sourceRef' = NoSource
                  /\ activeSources' = 0
                  /\ UNCHANGED <<audioContextRef, elapsed>>
          /\ UNCHANGED <<currentSegmentIndex, indexRef, segmentOffsetRef, story>>
      ]_vars

\* play was pressed at a cursor whose chapter has not arrived: Buffering, no
\* source, and the effects of that press have not run yet
C29_Witness ==
    /\ Mounted /\ isPlaying /\ isBuffering
    /\ ~rafClosure.isPlaying /\ indexRef = currentSegmentIndex
    /\ sourceRef = NoSource /\ activeSources = 0
    /\ currentSegmentIndex + 1 \notin DOMAIN story.segments

\* C30: a generation attempt starts with its text request; its audio request
\* is made only on a step on which the text request of the same attempt
\* succeeded; a text request that fails or times out ends the attempt with the
\* failure logged and the lock released, so no audio is requested for it, and
\* an audio timeout is only ever logged for an attempt whose audio was requested
C30_AudioAfterText ==
    [][/\ GenerationStarted => StartedAttempt.step = "text"
       /\ \A k \in DOMAIN attempts' :
            (attempts'[k].step = "audio") =>
                /\ k \in DOMAIN attempts
                /\ attempts[k].index = attempts'[k].index
                /\ attempts[k].route = attempts'[k].route
                /\ attempts[k].step \in {"text", "audio"}
                /\ attempts[k].step = "text" => (lastFailed' = lastFailed /\ isGeneratingRef')
       /\ \A k \in DOMAIN attempts :
            (attempts[k].step = "text" /\ attempts' # attempts /\ Len(attempts') = Len(attempts)) =>
                attempts' = [attempts EXCEPT ![k].step = "audio"]
       /\ (Len(attempts) = 1 /\ attempts[1].step = "text" /\ attempts' = <<>>) =>
            /\ lastFailed'.index = attempts[1].index
            /\ lastFailed'.error \in {"Text generation timeout", "provider error"}
            /\ ~isGeneratingRef'
       /\ (AttemptFails /\ lastFailed'.error = "Audio generation timeout") =>
            attempts[1].step = "audio"
      ]_vars

\* the text request for a chapter timed out, the retry for the same chapter
\* got its text and now waits for its audio
C30_Witness ==
    /\ Len(attempts) = 1 /\ attempts[1].step = "audio"
    /\ lastFailed.error = "Text generation timeout"
    /\ lastFailed.index = attempts[1].index
    /\ lastFailed.route = attempts[1].route

\* C31: within a journey the Story is append-only: every chapter that is in
\* the Story stays in it, with its index, its route and its audio, on every
\* step that is not a reset, so the number of chapters never decreases and a
\* step adds at most one chapter, whose index was not present before
C31_AppendOnly ==
    [][(Mounted /\ Mounted') =>
          /\ \A k \in DOMAIN story.segments :
                \E j \in DOMAIN story'.segments : story'.segments[j] = story.segments[k]
          /\ Len(story'.segments) >= Len(story.segments)
          /\ Len(story'.segments) <= Len(story.segments) + 1
          /\ \A j \in DOMAIN story'.segments :
                (\A k \in DOMAIN story.segments : story.segments[k] # story'.segments[j]) =>
                    story'.segments[j].index \notin Indices(story)
          /\ \A i, j \in DOMAIN story'.segments :
                i # j => story'.segments[i].index # story'.segments[j].index
      ]_vars

\* the second journey of the behaviour holds three chapters
C31_Witness ==
    /\ Mounted /\ journeys = 2
    /\ Len(story.segments) = 3

\* C32: the look-ahead is one chapter beyond the one playing: in every state
\* of a journey the Story holds at most cursor + 2 chapters, for the player's
\* cursor and for the copy of it the scheduler reads
C32_LookAheadBounded ==
    Mounted =>
        /\ Len(story.segments) <= currentSegmentIndex + LOOKAHEAD
        /\ Len(story.segments) <= currentPlayingIndex + LOOKAHEAD

\* the window is full at a cursor beyond the first chapter while chapters are
\* still missing
C32_Witness ==
    /\ Mounted /\ currentPlayingIndex = 1
    /\ Len(story.segments) = currentPlayingIndex + LOOKAHEAD
    /\ Len(story.segments) < story.totalSegmentsEstimate
    /\ ~schedulerDirty /\ ~isGeneratingRef

\* C33 (as stated): in every state the chapters of the Story are a contiguous
\* prefix: the chapter at list position k (0-based) has index k + 1, so the
\* lookup at the cursor yields the chapter with index cursor + 1
C33_ContiguousPrefix ==
    \A k \in DOMAIN story.segments : story.segments[k].index = k

\* C34: every chapter of every Story has its audio attached, and a chapter
\* enters the Story only on the step that ends an attempt whose text and audio
\* have both succeeded, or on the step that creates the Story once the first
\* chapter's text and audio have succeeded
C34_ChaptersHaveAudio ==
    [][/\ \A j \in DOMAIN story'.segments : story'.segments[j].audioBuffer
       /\ (story'.segments # story.segments /\ story' # NoStory) =>
            \/ /\ startup = "landmarks"
               /\ Indices(story') = {1}
            \/ \E k \in DOMAIN attempts :
                 /\ attempts[k].step = "close"
                 /\ Indices(story') = Indices(story) \cup {attempts[k].index}
                 /\ k \notin DOMAIN attempts'
      ]_vars

\* the Story of a journey holds all four chapters of its estimate
C34_Witness ==
    /\ Mounted /\ story.totalSegmentsEstimate = SEGMENT_CAP
    /\ Len(story.segments) = SEGMENT_CAP
    /\ \A k \in DOMAIN story.segments : story.segments[k].route = route.id

\* C35: within a journey the cursor stays in 0 .. totalSegmentsEstimate - 1,
\* it never decreases, and it changes only by +1, on a step taken when the
\* sounding source has played its chapter to the end
C35_CursorRange ==
    [][Mounted' =>
          /\ currentSegmentIndex' >= 0
          /\ currentSegmentIndex' <= story'.totalSegmentsEstimate - 1
          /\ Mounted =>
                /\ currentSegmentIndex' >= currentSegmentIndex
                /\ currentSegmentIndex' <= currentSegmentIndex + 1
                /\ (currentSegmentIndex' = currentSegmentIndex + 1) =>
                      /\ isPlaying /\ sourceRef # NoSource
                      /\ elapsed >= ChapterDuration
                      /\ activeSources = 1
      ]_vars

\* the cursor stands on the last chapter of a four-chapter journey
C35_Witness ==
    /\ Mounted /\ story.totalSegmentsEstimate = SEGMENT_CAP
    /\ currentSegmentIndex = SEGMENT_CAP - 1
    /\ indexRef = currentSegmentIndex
    /\ sourceRef # NoSource /\ elapsed = 1

\* the player waits for the chapter at the cursor, no attempt runs and no
\* dependency of the scheduler effect has changed since it last ran
WaitingUnserved ==
    /\ Mounted /\ isBuffering
    /\ currentSegmentIndex + 1 \notin DOMAIN story.segments
    /\ currentPlayingIndex = currentSegmentIndex
    /\ attempts = <<>> /\ ~schedulerDirty

\* C36: a failed attempt does not wake the scheduler: the failing step starts
\* no attempt and leaves the scheduler effect as it was; an attempt is started
\* only by a run of that effect, which is due only after the Story, the route,
\* the journey state or the cursor copy has changed; so a player that waits in
\* Buffering for a chapter whose attempt has failed keeps waiting, whatever
\* the user presses, until the journey is reset
C36_NoRetryWithoutChange ==
    [][/\ AttemptFails => (schedulerDirty' = schedulerDirty /\ ~GenerationStarted)
       /\ GenerationStarted => SchedulerRuns
       /\ (~schedulerDirty /\ schedulerDirty') =>
            \/ story' # story
            \/ route' # route
            \/ appState' # appState
            \/ currentPlayingIndex' # currentPlayingIndex
       /\ WaitingUnserved => (WaitingUnserved' \/ ~Mounted')
      ]_vars

\* the attempt for the chapter the player waits for has timed out and nothing
\* is left that would request it again
C36_Witness ==
    /\ WaitingUnserved /\ isPlaying /\ ~playerDirty
    /\ lastFailed.index = currentSegmentIndex + 1
    /\ lastFailed.route = route.id
    /\ ~isGeneratingRef

\* C37: a paused player is not started by a chapter's arrival: on every step
\* that leaves the player paused no source is created and Buffering stays as it
\* is; Buffering is cleared only with isPlaying true afterwards and a source of
\* the chapter at the cursor sounding from offset 0; in particular pressing
\* play after a pause taken during Buffering starts that chapter at offset 0
C37_PausedStaysSilent ==
    [][(Mounted /\ Mounted') =>
         /\ (~isPlaying /\ ~isPlaying') =>
              /\ sourceRef' = NoSource
              /\ activeSources' = activeSources
              /\ isBuffering' = isBuffering
         /\ (isBuffering /\ ~isBuffering') =>
              /\ isPlaying'
              /\ SegmentAt(story, currentSegmentIndex).audioBuffer
              /\ sourceRef' # NoSource
              /\ sourceRef'.index = SegmentAt(story, currentSegmentIndex).index
              /\ sourceRef'.route = SegmentAt(story, currentSegmentIndex).route
              /\ elapsed' = 0
         /\ (~isPlaying /\ isBuffering /\ isPlaying'
               /\ SegmentAt(story, currentSegmentIndex).audioBuffer) =>
              (~isBuffering' /\ elapsed' = 0 /\ sourceRef' # NoSource)
      ]_vars

\* paused while Buffering on a later chapter; the chapter has arrived, the
\* effects have run, and still nothing sounds and Buffering is shown
C37_Witness ==
    /\ Mounted /\ ~isPlaying /\ isBuffering
    /\ currentSegmentIndex > 0
    /\ SegmentAt(story, currentSegmentIndex).audioBuffer
    /\ ~playerDirty
    /\ sourceRef = NoSource /\ activeSources = 0

\* C38: stopAudio never moves the cursor forward: a pause leaves the cursor
\* where it is, the teardown of the player puts it back to 0, and no step taken
\* while the sounding source has not played to its end advances it; a source
\* is replaced or dropped under a player that keeps playing only when it has
\* played to its end, and that step advances the cursor by exactly one
C38_StopNeverAdvances ==
    [][Mounted =>
         /\ (Mounted' /\ isPlaying /\ ~isPlaying') =>
              /\ currentSegmentIndex' = currentSegmentIndex
              /\ sourceRef' = NoSource /\ activeSources' = 0
         /\ ~Mounted' => (currentSegmentIndex' = 0 /\ activeSources' = 0)
         /\ (sourceRef # NoSource /\ elapsed < ChapterDuration) =>
              currentSegmentIndex' <= currentSegmentIndex
         /\ (Mounted' /\ isPlaying' /\ sourceRef # NoSource /\ sourceRef' # sourceRef) =>
              /\ elapsed >= ChapterDuration
              /\ currentSegmentIndex' = currentSegmentIndex + 1
              /\ activeSources' <= 1
      ]_vars

\* paused in the middle of the second chapter: the source was stopped and the
\* cursor still stands on that chapter
C38_Witness ==
    /\ Mounted /\ ~isPlaying /\ ~isBuffering
    /\ currentSegmentIndex = 1 /\ indexRef = 1
    /\ segmentOffsetRef = 1
    /\ sourceRef = NoSource /\ activeSources = 0

\* a journey in which a provider call may answer after its timer has fired
NextLate ==
    \/ \E d \in Durations : handleGenerateStory(d)
    \/ handleOpenKeySelector
    \/ OutlineSettles(UsualOutlineReply(calculateTotalSegments(route.durationSeconds)))
    \/ \E o \in StartupSettlements(startup) : StartupSettles(o)
    \/ StartupClose
    \/ LandmarksResolve(UsualLandmarkReply, {})
    \/ StartupFinish
    \/ handleReset
    \/ SchedulerEffect
    \/ \E k \in DOMAIN attempts : \E o \in withTimeout(ProviderSettlements) : AttemptSettles(k, o)
    \/ \E k \in DOMAIN attempts : AttemptTimesOut(k)
    \/ \E k \in DOMAIN attempts : AttemptCompletes(k)
    \/ \E c \in lateCalls : \E o \in ProviderSettlements : LateResult(c, o)
    \/ FirstPlay
    \/ Tick
    \/ updateProgress
    \/ SegmentEnd
    \/ PlayerEffects

LateSpec == Init /\ [][NextLate]_vars

\* C39: a provider result that arrives after its timer has fired is dropped:
\* the step on which it arrives changes neither the Story, nor the lock, nor
\* the running attempts, nor anything else of the journey or the player, also
\* while a newer attempt for the same chapter holds the lock; and the attempt
\* whose timer fired has ended on that timer, with the lock released then
C39_LateResultDiscarded ==
    [][/\ (lateCalls' # lateCalls /\ lateCalls' \subseteq lateCalls) =>
            /\ UNCHANGED <<story, isGeneratingRef, attempts, lastFailed, schedulerDirty,
                           appState, route, currentPlayingIndex, smoothProgress>>
            /\ UNCHANGED playerVars
       /\ (lateCalls' # lateCalls /\ lateCalls \subseteq lateCalls') =>
            /\ ~isGeneratingRef'
            /\ Len(attempts') = Len(attempts) - 1
            /\ lastFailed'.error \in {"Text generation timeout", "Audio generation timeout"}
            /\ story' = story
      ]_vars

\* the audio call of an attempt for a chapter answers late while a newer
\* attempt for the same chapter of the same journey holds the lock and the
\* chapter is not in the Story
C39_Witness ==
    /\ Mounted /\ isGeneratingRef
    /\ \E c \in lateCalls : \E k \in DOMAIN attempts :
          /\ c.step = "audio"
          /\ attempts[k].index = c.index /\ attempts[k].route = c.route
          /\ c.route = route.id
          /\ c.index \notin {story.segments[j].index : j \in DOMAIN story.segments}

\* the listener's device keeps going: the audio clock runs under a sounding
\* source, its end is reported, and the animation frames are served; with the
\* fairness of SuccessSpec for the effects and the awaited calls
PlaythroughSpec ==
    /\ SuccessSpec
    /\ WF_vars(Tick)
    /\ WF_vars(updateProgress)
    /\ WF_vars(SegmentEnd)

\* C40 (as stated): when every generation attempt succeeds and the listener
\* has pressed play and never pauses, playback of the journey comes to its
\* stop on the last chapter with all chapters of the estimate in the Story,
\* unless the journey is reset first; also in a journey that follows a reset
C40_PlaysToTheEnd ==
    (Mounted /\ isPlaying) ~>
        \/ ~Mounted
        \/ /\ ~isPlaying
           /\ currentSegmentIndex = story.totalSegmentsEstimate - 1
           /\ Len(story.segments) = story.totalSegmentsEstimate

====
